---- MODULE Spec2Model ----
(***************************************************************************)
(* Model of framework/SupervisedLearning/SupervisedLearning.py: the base   *)
(* class SupervisedLearning (configuration, train, evaluate, confidence,   *)
(* reset, __getstate__/__setstate__, setAdditionalParams) around an        *)
(* abstract backend whose hooks (_train, __evaluateLocal__,                *)
(* __confidenceLocal__, __resetLocal__, reseed) are recorded call by call; *)
(* the static method checkArrayConsistency and the segment hooks of ROM    *)
(* clustering have a specification of their own.                           *)
(*                                                                         *)
(* Python values are records [type, shape, data, of]:                      *)
(*   NoneType          shape <<>>        data <<>>                         *)
(*   ndarray, 1-d      shape <<n>>       data of length n                  *)
(*   ndarray, 2-d      shape <<n, t>>    data of length n*t, row major     *)
(*   list              shape <<t1..tn>>  data the realizations, one after  *)
(*                                       the other; of, the type of each   *)
(*                                       element ("ndarray" a 1-d array,   *)
(*                                       "ndarray2d" one of 2 dimensions)  *)
(* A dict is the sequence of its items in insertion order.  A real number  *)
(* num/sqrt(rad) is the pair <<num, rad>>; RealEq compares two of them.    *)
(***************************************************************************)
EXTENDS Integers, Sequences, FiniteSets, TLC

\* ------------------------------------------------------------------ bounds
MaxSamples == 2
MaxVal == 1
MaxTime == 2
MaxSegments == 2

\* ------------------------------------------------------------ Python values
NoneValue == [type |-> "NoneType", shape |-> <<>>, data |-> <<>>, of |-> <<>>]

ndarray(d) == [type |-> "ndarray", shape |-> <<Len(d)>>, data |-> d, of |-> <<>>]

ndarray2d(n, t, d) == [type |-> "ndarray", shape |-> <<n, t>>, data |-> d, of |-> <<>>]

RECURSIVE SumSeq(_)
SumSeq(s) == IF s = <<>> THEN 0 ELSE Head(s) + SumSeq(Tail(s))

RECURSIVE Ramp(_)
\* the realizations 1..t1, 1..t2, ... of a list of histories, one after the other
Ramp(lens) ==
  IF lens = <<>> THEN <<>>
  ELSE [i \in 1..Head(lens) |-> i] \o Ramp(Tail(lens))

listOfArrays(lens) ==
  [type |-> "list", shape |-> lens, data |-> Ramp(lens),
   of |-> [i \in 1..Len(lens) |-> "ndarray"]]

\* the arrays v, 2v, .. nv of 1..MaxSamples values
Arrays == {ndarray([i \in 1..n |-> v * i]) : n \in 1..MaxSamples, v \in 0..MaxVal}

\* the lists of 1..MaxSamples histories, the first of a steps and the others of b
Lists ==
  {listOfArrays([i \in 1..n |-> IF i = 1 THEN a ELSE b]) :
     n \in 1..MaxSamples, a \in 1..MaxTime, b \in 1..MaxTime}

Max(a, b) == IF a >= b THEN a ELSE b

\* len(v) of a Python value
PyLen(v) == IF v.type = "ndarray" THEN v.shape[1] ELSE Len(v.shape)

\* ndarray.size
Size(v) == IF Len(v.shape) = 2 THEN v.shape[1] * v.shape[2] ELSE v.shape[1]

\* a list whose realizations do not all have one length
Ragged(v) == v.type = "list" /\ \E i, j \in 1..Len(v.shape) : v.shape[i] # v.shape[j]

\* ------------------------------------------------------------------- dicts
Item(k, v) == [name |-> k, value |-> v]

dict(items) == [isDict |-> TRUE, items |-> items]

NotADict == [isDict |-> FALSE, items |-> <<>>]

names(d) == [i \in 1..Len(d.items) |-> d.items[i].name]

values(d) == [i \in 1..Len(d.items) |-> d.items[i].value]

In(x, s) == \E i \in 1..Len(s) : s[i] = x

\* list.index(x): the first position of x
index(s, x) == CHOOSE i \in 1..Len(s) : s[i] = x /\ \A j \in 1..(i - 1) : s[j] # x

\* the value read by place, as if every dict held its keys in the order x, z, y
GetByPlace(d, k) ==
  values(d)[IF k = "x" THEN 1 ELSE IF k = "y" THEN Len(d.items)
            ELSE IF Len(d.items) > 1 THEN 2 ELSE 1]

Get(d, k) == values(d)[index(names(d), k)]

\* ---------------------------------------------------- checkArrayConsistency
\* a float, which is no array
PyFloat == [type |-> "float", shape |-> <<>>, data |-> <<0>>, of |-> <<>>]

\* a list of one element of each of these types, in this order
listOf(types) ==
  [type |-> "list", shape |-> [i \in 1..Len(types) |-> 1],
   data |-> [i \in 1..Len(types) |-> 1], of |-> types]

\* arrayIn[cnt], cnt from 1: the element of a list
elementArray(arrayIn, cnt) ==
  LET t == arrayIn.of[cnt] IN
  IF t = "ndarray" THEN ndarray([i \in 1..arrayIn.shape[cnt] |-> i])
  ELSE IF t = "ndarray2d" THEN ndarray2d(1, 1, <<1>>)
  ELSE IF t = "NoneType" THEN NoneValue
  ELSE IF t = "list" THEN listOf(<<>>)
  ELSE PyFloat

RECURSIVE checkArrayConsistency(_, _)
\* the loop over the elements of a list, from element cnt on: it returns at the
\* first element that is no consistent array, whose index from 0 the message has
RECURSIVE checkElements(_, _)
checkElements(arrayIn, cnt) ==
  LET resp == checkArrayConsistency(elementArray(arrayIn, cnt), FALSE) IN
  IF cnt > Len(arrayIn.of) THEN <<TRUE, "">>
  ELSE IF ~resp[1]
    THEN <<FALSE, " The element number " \o ToString(cnt - 1)
                    \o " is not a consistent array. Error: " \o resp[2]>>
  ELSE checkElements(arrayIn, cnt + 1)

\* (consistent, error message)
checkArrayConsistency(arrayIn, isDynamic) ==
  IF arrayIn.type = "NoneType" THEN <<FALSE, "is None">>
  ELSE IF arrayIn.type = "list"
    THEN IF isDynamic THEN checkElements(arrayIn, 1)
         ELSE <<FALSE, "list type is allowed for dynamic ROMs only">>
  ELSE IF arrayIn.type # "ndarray" THEN <<FALSE, "not a numpy array">>
  ELSE IF Len(arrayIn.shape) > 1 THEN <<FALSE, "must be 1-d">>
  ELSE <<TRUE, "">>

\* ------------------------------------------------------------ normalization
\* (mu, sigma) of a column: mu = sum/n, sigma = sqrt(rad)/n, sigma = 1 when the
\* standard deviation is zero
NoParams == [has |-> FALSE, sum |-> 0, n |-> 1, rad |-> 1]

normalizationFactors(v) ==
  LET n == Len(v.data)
      s == SumSeq(v.data)
      q == SumSeq([i \in 1..n |-> v.data[i] * v.data[i]])
      r == n * q - s * s
  IN [has |-> TRUE, sum |-> s, n |-> n, rad |-> IF r = 0 THEN n * n ELSE r]

\* (x - mu)/sigma
Normalized(x, p) == <<p.n * x - p.sum, p.rad>>

\* x itself, and the zero np.zeros fills a matrix with
Raw(x) == <<x, 1>>

Sign(a) == IF a > 0 THEN 1 ELSE IF a < 0 THEN -1 ELSE 0

RealEq(a, b) == Sign(a[1]) = Sign(b[1]) /\ a[1] * a[1] * b[2] = b[1] * b[1] * a[2]

\* ------------------------------------------------------------------- state
VARIABLES
  self,      \* the instance's __dict__; muAndSigmaFeatures is a reference into heap
  heap,      \* the dict objects, by reference
  state,     \* the dict the last __getstate__ returned, and whether there is one
  atSnapshot,\* the instance's fields, dereferenced, when state was taken
  lastOp,    \* the method the last step called
  arg,       \* the dict that call was given
  outcome,   \* how that call ended
  hooks,     \* the backend hooks that call invoked, with their arguments
  checked,   \* a call of checkArrayConsistency: its arguments and what it returned
  segment    \* the segment hooks that have returned on an assembly of ROMs

vars == <<self, heap, state, atSnapshot, lastOp, arg, outcome, hooks, checked, segment>>

Names == {"x", "z", "y"}

\* features and target are None until the instance is configured
None == [isNone |-> TRUE, list |-> <<>>]

Some(l) == [isNone |-> FALSE, list |-> l]

\* how a call ends: it returns, raiseAnError raises exc with a message about a
\* variable, a Python or numpy statement raises exc, or the backend hook raises
Ok == [kind |-> "ok", exc |-> "", about |-> ""]

raiseAnError(exc, about) == [kind |-> "raiseAnError", exc |-> exc, about |-> about]

PyError(exc, about) == [kind |-> "python", exc |-> exc, about |-> about]

BackendError == [kind |-> "backend", exc |-> "", about |-> ""]

\* the (dynamicHandling, dynamicFeatures) pairs of the subclasses modelled
Modes == {<<FALSE, FALSE>>, <<TRUE, TRUE>>}

EmptyDict == [k \in Names |-> NoParams]

Untrained == [fitted |-> FALSE, positions |-> <<>>]

\* the instance's fields with its references followed
Deref(d, h) == [d EXCEPT !.muAndSigmaFeatures = h[d.muAndSigmaFeatures]]

\* no call of checkArrayConsistency has been made
NotChecked ==
  [arrayIn |-> NoneValue, isDynamic |-> FALSE, called |-> FALSE, resp |-> <<TRUE, "">>]

\* the local ROMs of an assembly
Locals == 1..MaxSegments

\* no segment hook has been called
NoSegment == [settings |-> FALSE, adjusted |-> {}, finalized |-> {}, global |-> FALSE]

\* __init__, then the subclass's choice of dynamic handling
Init ==
  /\ \E m \in Modes :
       self = [features |-> None, target |-> None, amITrained |-> FALSE,
               dynamicHandling |-> m[1], dynamicFeatures |-> m[2],
               featureSelectionAlgo |-> "None", nFeaturesToSelect |-> -1,
               muAndSigmaFeatures |-> 1, backend |-> Untrained]
  /\ heap = <<EmptyDict>>
  /\ state = [taken |-> FALSE, d |-> self]
  /\ atSnapshot = Deref(self, heap)
  /\ lastOp = "idle"
  /\ arg = NotADict
  /\ outcome = Ok
  /\ hooks = <<>>
  /\ checked = NotChecked
  /\ segment = NoSegment

isDynamic == self.dynamicHandling

muAndSigmaFeatures == heap[self.muAndSigmaFeatures]

Configured == ~self.features.isNone

\* no call is in progress
Idle == lastOp = "idle"

\* the caller configures an instance once, before it uses it
Usable == Configured /\ Idle

NoMatrix == [rows |-> 0, time |-> 0, cols |-> <<>>, positions |-> <<>>]

Call(hook, featureVals, targetVals) ==
  [hook |-> hook, featureVals |-> featureVals, targetVals |-> targetVals]

\* ----------------------------------------------------------- configuration
FeatureLists == {<<>>, <<"x", "z">>, <<"x", "y">>}

TargetLists == {<<"y">>}

Elems(s) == {s[i] : i \in 1..Len(s)}

_handleInput(Features, Target, featureSelectionAlgorithm, nFeaturesToSelect) ==
  /\ ~Configured
  /\ Idle
  /\ self' = [self EXCEPT !.features = Some(Features), !.target = Some(Target),
                          !.featureSelectionAlgo = featureSelectionAlgorithm,
                          !.nFeaturesToSelect = nFeaturesToSelect]
  /\ outcome' = IF Elems(Target) \cap Elems(Features) # {}
                  THEN raiseAnError("IOError", "duplicates") ELSE Ok
  /\ lastOp' = "_handleInput"
  /\ arg' = NotADict
  /\ hooks' = <<>>
  /\ UNCHANGED <<heap, state, atSnapshot, checked, segment>>

initializeFromDict(Features, Target, featureSelectionAlgorithm) ==
  /\ ~Configured
  /\ Idle
  /\ self' = [self EXCEPT !.features = Some(Features), !.target = Some(Target),
                          !.featureSelectionAlgo = featureSelectionAlgorithm]
  /\ outcome' = Ok
  /\ lastOp' = "initializeFromDict"
  /\ arg' = NotADict
  /\ hooks' = <<>>
  /\ UNCHANGED <<heap, state, atSnapshot, checked, segment>>

\* ------------------------------------------------------- snapshot, restore
\* copy.copy(self.__dict__): the fields are copied, the objects they refer to are not
copy(d) == d

__getstate__ ==
  /\ Usable
  /\ state' = [taken |-> TRUE, d |-> copy(self)]
  /\ atSnapshot' = Deref(self, heap)
  /\ lastOp' = "__getstate__"
  /\ arg' = NotADict
  /\ outcome' = Ok
  /\ hooks' = <<>>
  /\ UNCHANGED <<self, heap, checked, segment>>

\* self.__dict__.update(d)
__setstate__ ==
  /\ Usable
  /\ state.taken
  /\ self' = state.d
  /\ lastOp' = "__setstate__"
  /\ arg' = NotADict
  /\ outcome' = Ok
  /\ hooks' = <<>>
  /\ UNCHANGED <<heap, state, atSnapshot, checked, segment>>

\* ------------------------------------------------------------------- reset
reset ==
  /\ Usable
  /\ self' = [self EXCEPT !.amITrained = FALSE, !.backend = Untrained]
  /\ hooks' = <<Call("__resetLocal__", NoMatrix, NoMatrix)>>
  /\ lastOp' = "reset"
  /\ arg' = NotADict
  /\ outcome' = Ok
  /\ UNCHANGED <<heap, state, atSnapshot, checked, segment>>

\* ------------------------------------------------------------------- train
\* a matrix: its columns, each labelled with the position its feature has in
\* self.features
Matrix(rows, time, cols, positions) ==
  [rows |-> rows, time |-> time, cols |-> cols, positions |-> positions]

Positions(n) == [i \in 1..n |-> i]

\* the position of the first of the wanted names that is no key of d, 0 when all are
RECURSIVE firstMissing(_, _, _)
firstMissing(wanted, d, i) ==
  IF i > Len(wanted) THEN 0
  ELSE IF ~In(wanted[i], names(d)) THEN i
  ELSE firstMissing(wanted, d, i + 1)

\* the loop over self.target and np.stack(targetValues, axis=-1)
stackTargets(tdict) ==
  LET target == self.target.list
      miss == firstMissing(target, tdict, 1)
      vals == [i \in 1..Len(target) |-> Get(tdict, target[i])]
  IN IF miss # 0
       THEN [outcome |-> raiseAnError("IOError", target[miss]), targetValues |-> NoMatrix]
     ELSE IF target = <<>> \/ \E i \in 1..Len(target) : vals[i].shape # vals[1].shape
       THEN [outcome |-> PyError("ValueError", ""), targetValues |-> NoMatrix]
     ELSE [outcome |-> Ok,
           targetValues |-> Matrix(PyLen(vals[1]), 0, [i \in 1..Len(target) |-> vals[i].data],
                                   Positions(Len(target)))]

\* values[names.index(feat)][0].size
firstSize(v) ==
  IF v.type = "list" THEN v.shape[1]
  ELSE IF Len(v.shape) = 2 THEN v.shape[2]
  ELSE 1

\* featLen, the loop of the dynamicFeatures branch: names.index raises for a
\* feature that is no key, and None cannot be subscripted
RECURSIVE featLenLoop(_, _, _)
featLenLoop(tdict, cnt, featLen) ==
  LET features == self.features.list IN
  IF cnt > Len(features) THEN [outcome |-> Ok, featLen |-> featLen]
  ELSE IF ~In(features[cnt], names(tdict))
    THEN [outcome |-> PyError("ValueError", features[cnt]), featLen |-> featLen]
  ELSE IF Get(tdict, features[cnt]).type = "NoneType"
    THEN [outcome |-> PyError("TypeError", ""), featLen |-> featLen]
  ELSE featLenLoop(tdict, cnt + 1, Max(firstSize(Get(tdict, features[cnt])), featLen))

\* the number of dimensions of np.asarray(v), v a list of arrays of one length
\* or an array
asarrayDims(v) == IF v.type = "list" THEN 2 ELSE Len(v.shape)

\* the second dimension of np.asarray(v) when it has two
asarrayCols(v) == IF v.type = "list" THEN v.shape[1] ELSE v.shape[2]

\* _localNormalizeData: the dict is changed in place
_localNormalizeData(mu, tdict, feat) ==
  [mu EXCEPT ![feat] = normalizationFactors(Get(tdict, feat))]

\* (valueToUse[:,0] if len(valueToUse.shape) > 1 else valueToUse[:]), normalized
staticColumn(v, p, n) ==
  IF asarrayDims(v) > 1
    THEN [r \in 1..n |-> Normalized(v.data[(r - 1) * asarrayCols(v) + 1], p)]
    ELSE [r \in 1..n |-> Normalized(v.data[r], p)]

\* valueToUse[:, :] normalized and assigned to featureValues[:, :, cnt]: numpy
\* repeats a second dimension of 1 and refuses any other that is not featLen
dynamicColumn(v, p, n, featLen) ==
  LET t == asarrayCols(v) IN
  [r \in 1..n |-> [k \in 1..featLen |->
      Normalized(v.data[(r - 1) * t + (IF t = 1 THEN 1 ELSE k)], p)]]

\* the loop over self.features, from feature cnt on; it ends at the first error
RECURSIVE featureLoop(_, _, _, _, _, _)
featureLoop(tdict, cnt, mu, cols, n, featLen) ==
  LET features == self.features.list
      feat == features[cnt]
      valueToUse == Get(tdict, feat)
      resp == checkArrayConsistency(valueToUse, isDynamic)
      mu2 == _localNormalizeData(mu, tdict, feat)
  IN
  IF cnt > Len(features) THEN [outcome |-> Ok, mu |-> mu, cols |-> cols]
  ELSE IF ~In(feat, names(tdict))
    THEN [outcome |-> raiseAnError("IOError", feat), mu |-> mu, cols |-> cols]
  ELSE IF ~resp[1]
    THEN [outcome |-> raiseAnError("IOError", feat), mu |-> mu, cols |-> cols]
  ELSE IF Ragged(valueToUse)
    THEN [outcome |-> PyError("ValueError", ""), mu |-> mu, cols |-> cols]
  ELSE IF PyLen(valueToUse) # n
    THEN [outcome |-> raiseAnError("IOError", feat), mu |-> mu, cols |-> cols]
  ELSE IF self.dynamicFeatures
    THEN IF asarrayDims(valueToUse) < 2
           THEN [outcome |-> PyError("IndexError", ""), mu |-> mu2, cols |-> cols]
         ELSE IF asarrayCols(valueToUse) \notin {featLen, 1}
           THEN [outcome |-> PyError("ValueError", ""), mu |-> mu2, cols |-> cols]
         ELSE featureLoop(tdict, cnt + 1, mu2,
                Append(cols, dynamicColumn(valueToUse, mu2[feat], n, featLen)), n, featLen)
  ELSE featureLoop(tdict, cnt + 1, mu2,
         Append(cols, staticColumn(valueToUse, mu2[feat], n)), n, featLen)

\* featureValues[:,support]: the columns the mask keeps, in order
RECURSIVE keep(_, _)
keep(cols, support) ==
  IF cols = <<>> THEN <<>>
  ELSE (IF Head(support) THEN <<Head(cols)>> ELSE <<>>) \o keep(Tail(cols), Tail(support))

Count(support) == Cardinality({i \in 1..Len(support) : support[i]})

\* the keep-masks RFE may return for nFeat columns: nFeaturesToSelect of them
\* kept, or any number when it is None
Supports(nFeat, nFeaturesToSelect) ==
  {m \in [1..nFeat -> BOOLEAN] :
     IF nFeaturesToSelect > 0 THEN Count(m) = (IF nFeaturesToSelect < nFeat THEN nFeaturesToSelect ELSE nFeat)
     ELSE nFeat = 0 \/ Count(m) > 0}

\* train up to the call of the backend: what it ended with, the dict of
\* normalization parameters it left, and the matrices for _train
prepare(tdict, support) ==
  LET mu == muAndSigmaFeatures
      fail(o, m) == [outcome |-> o, mu |-> m, featureValues |-> NoMatrix, targetValues |-> NoMatrix]
      t == stackTargets(tdict)
      n == t.targetValues.rows
      fl == IF self.dynamicFeatures THEN featLenLoop(tdict, 1, 0) ELSE [outcome |-> Ok, featLen |-> 0]
      f == featureLoop(tdict, 1, mu, <<>>, n, fl.featLen)
  IN
  IF ~tdict.isDict THEN fail(raiseAnError("TypeError", ""), mu)
  ELSE IF t.outcome.kind # "ok" THEN fail(t.outcome, mu)
  ELSE IF fl.outcome.kind # "ok" THEN fail(fl.outcome, mu)
  ELSE IF f.outcome.kind # "ok" THEN fail(f.outcome, f.mu)
  ELSE IF self.featureSelectionAlgo = "RFE"
    THEN IF self.nFeaturesToSelect = -1 THEN fail(PyError("AttributeError", ""), f.mu)
         ELSE [outcome |-> Ok, mu |-> f.mu,
               featureValues |-> Matrix(n, fl.featLen, keep(f.cols, support),
                                        keep(Positions(Len(f.cols)), support)),
               targetValues |-> t.targetValues]
  ELSE [outcome |-> Ok, mu |-> f.mu, featureValues |-> Matrix(n, fl.featLen, f.cols, Positions(Len(f.cols))),
        targetValues |-> t.targetValues]

\* the backend is fitted with the columns it was handed
_train(featureVals) == [fitted |-> TRUE, positions |-> featureVals.positions]

\* train with the trained flag set on entry instead of after the backend's return
trainFlagFirst(tdict, support, backendRaises) ==
  LET p == prepare(tdict, support) IN
  /\ Usable
  /\ heap' = [heap EXCEPT ![self.muAndSigmaFeatures] = p.mu]
  /\ hooks' = IF p.outcome.kind = "ok"
                THEN <<Call("_train", p.featureValues, p.targetValues)>> ELSE <<>>
  /\ outcome' = IF p.outcome.kind = "ok" /\ backendRaises THEN BackendError ELSE p.outcome
  /\ self' = IF p.outcome.kind = "ok" /\ ~backendRaises
               THEN [self EXCEPT !.amITrained = TRUE, !.backend = _train(p.featureValues)]
               ELSE [self EXCEPT !.amITrained = TRUE]
  /\ lastOp' = "train"
  /\ arg' = tdict
  /\ UNCHANGED <<state, atSnapshot, checked, segment>>

\* train with the trained flag set before the backend is called instead of
\* after it has returned
trainFlagBeforeBackend(tdict, support, backendRaises) ==
  LET p == prepare(tdict, support) IN
  /\ Usable
  /\ heap' = [heap EXCEPT ![self.muAndSigmaFeatures] = p.mu]
  /\ hooks' = IF p.outcome.kind = "ok"
                THEN <<Call("_train", p.featureValues, p.targetValues)>> ELSE <<>>
  /\ outcome' = IF p.outcome.kind = "ok" /\ backendRaises THEN BackendError ELSE p.outcome
  /\ self' = IF p.outcome.kind = "ok" /\ ~backendRaises
               THEN [self EXCEPT !.amITrained = TRUE, !.backend = _train(p.featureValues)]
               ELSE IF p.outcome.kind = "ok" THEN [self EXCEPT !.amITrained = TRUE]
               ELSE self
  /\ lastOp' = "train"
  /\ arg' = tdict
  /\ UNCHANGED <<state, atSnapshot, checked, segment>>

train(tdict, support, backendRaises) ==
  LET p == prepare(tdict, support) IN
  /\ Usable
  /\ heap' = [heap EXCEPT ![self.muAndSigmaFeatures] = p.mu]
  /\ hooks' = IF p.outcome.kind = "ok"
                THEN <<Call("_train", p.featureValues, p.targetValues)>> ELSE <<>>
  /\ outcome' = IF p.outcome.kind = "ok" /\ backendRaises THEN BackendError ELSE p.outcome
  /\ self' = IF p.outcome.kind = "ok" /\ ~backendRaises
               THEN [self EXCEPT !.amITrained = TRUE, !.backend = _train(p.featureValues)]
               ELSE self
  /\ lastOp' = "train"
  /\ arg' = tdict
  /\ UNCHANGED <<state, atSnapshot, checked, segment>>

\* ------------------------------------------------------- evaluate, confidence
\* the loop over the values of edict: each is checked, and with dynamicFeatures
\* its shape[-1] is read, which a list has not
RECURSIVE checkValues(_, _, _, _)
checkValues(edict, i, stepInFeatures, readShape) ==
  LET v == values(edict)[i] IN
  IF i > Len(edict.items) THEN [outcome |-> Ok, stepInFeatures |-> stepInFeatures]
  ELSE IF ~checkArrayConsistency(v, isDynamic)[1]
    THEN [outcome |-> raiseAnError("IOError", names(edict)[i]), stepInFeatures |-> stepInFeatures]
  ELSE IF readShape /\ self.dynamicFeatures
    THEN IF v.type = "list"
           THEN [outcome |-> PyError("AttributeError", ""), stepInFeatures |-> stepInFeatures]
           ELSE checkValues(edict, i + 1, Max(stepInFeatures, v.shape[Len(v.shape)]), readShape)
  ELSE checkValues(edict, i + 1, stepInFeatures, readShape)

\* values[0].size, the number of rows of the matrix
rowsOf(edict) ==
  IF edict.items = <<>> THEN [outcome |-> PyError("IndexError", ""), rows |-> 0]
  ELSE IF values(edict)[1].type # "ndarray"
    THEN [outcome |-> PyError("AttributeError", ""), rows |-> 0]
  ELSE [outcome |-> Ok, rows |-> Size(values(edict)[1])]

\* a 1-d array of length len assigned along an axis of length axis: numpy
\* repeats a single element and refuses any other length
fits(len, axis) == len = axis \/ len = 1

\* the column of evaluate for one feature: (values - mu)/sigma
evaluateColumn(v, p, rows, stepInFeatures) ==
  LET at(k) == Normalized(v.data[IF Len(v.data) = 1 THEN 1 ELSE k], p) IN
  IF self.dynamicFeatures
    THEN [r \in 1..rows |-> [k \in 1..stepInFeatures |-> at(k)]]
    ELSE [r \in 1..rows |-> at(r)]

\* the column of confidence for one feature: the values as they are
confidenceColumn(v, rows) ==
  [r \in 1..rows |-> Raw(v.data[IF Len(v.data) = 1 THEN 1 ELSE r])]

\* the loop over self.features of evaluate
RECURSIVE evaluateLoop(_, _, _, _, _)
evaluateLoop(edict, cnt, cols, rows, stepInFeatures) ==
  LET features == self.features.list
      feat == features[cnt]
      v == Get(edict, feat)
  IN
  IF cnt > Len(features) THEN [outcome |-> Ok, cols |-> cols]
  ELSE IF ~In(feat, names(edict))
    THEN [outcome |-> raiseAnError("IOError", feat), cols |-> cols]
  ELSE IF ~checkArrayConsistency(v, isDynamic)[1]
    THEN [outcome |-> raiseAnError("IOError", feat), cols |-> cols]
  ELSE IF ~muAndSigmaFeatures[feat].has
    THEN [outcome |-> PyError("KeyError", feat), cols |-> cols]
  ELSE IF v.type = "list"
    THEN [outcome |-> PyError("TypeError", ""), cols |-> cols]
  ELSE IF ~fits(Len(v.data), IF self.dynamicFeatures THEN stepInFeatures ELSE rows)
    THEN [outcome |-> PyError("ValueError", ""), cols |-> cols]
  ELSE evaluateLoop(edict, cnt + 1,
         Append(cols, evaluateColumn(v, muAndSigmaFeatures[feat], rows, stepInFeatures)),
         rows, stepInFeatures)

\* the loop over self.features of confidence
RECURSIVE confidenceLoop(_, _, _, _)
confidenceLoop(edict, cnt, cols, rows) ==
  LET features == self.features.list
      feat == features[cnt]
      v == Get(edict, feat)
  IN
  IF cnt > Len(features) THEN [outcome |-> Ok, cols |-> cols]
  ELSE IF ~In(feat, names(edict))
    THEN [outcome |-> raiseAnError("IOError", feat), cols |-> cols]
  ELSE IF ~checkArrayConsistency(v, isDynamic)[1]
    THEN [outcome |-> raiseAnError("IOError", feat), cols |-> cols]
  ELSE IF v.type = "list" \/ ~fits(Len(v.data), rows)
    THEN [outcome |-> PyError("ValueError", ""), cols |-> cols]
  ELSE confidenceLoop(edict, cnt + 1, Append(cols, confidenceColumn(v, rows)), rows)

\* evaluate up to the call of the backend
evaluateMatrix(edict) ==
  LET fail(o) == [outcome |-> o, featureValues |-> NoMatrix]
      c == checkValues(edict, 1, 0, TRUE)
      r == rowsOf(edict)
      f == evaluateLoop(edict, 1, <<>>, r.rows, c.stepInFeatures)
  IN
  IF ~edict.isDict THEN fail(raiseAnError("IOError", ""))
  ELSE IF c.outcome.kind # "ok" THEN fail(c.outcome)
  ELSE IF r.outcome.kind # "ok" THEN fail(r.outcome)
  ELSE IF f.outcome.kind # "ok" THEN fail(f.outcome)
  ELSE [outcome |-> Ok,
        featureValues |-> Matrix(r.rows, IF self.dynamicFeatures THEN c.stepInFeatures ELSE 0,
                                 f.cols, Positions(Len(f.cols)))]

\* confidence up to the call of the backend; self.featureShape is no attribute
\* of this class
confidenceMatrix(edict) ==
  LET fail(o) == [outcome |-> o, featureValues |-> NoMatrix]
      c == checkValues(edict, 1, 0, FALSE)
      r == rowsOf(edict)
      f == confidenceLoop(edict, 1, <<>>, r.rows)
  IN
  IF ~edict.isDict THEN fail(raiseAnError("IOError", ""))
  ELSE IF c.outcome.kind # "ok" THEN fail(c.outcome)
  ELSE IF r.outcome.kind # "ok" THEN fail(r.outcome)
  ELSE IF self.dynamicFeatures THEN fail(PyError("AttributeError", ""))
  ELSE IF f.outcome.kind # "ok" THEN fail(f.outcome)
  ELSE [outcome |-> Ok, featureValues |-> Matrix(r.rows, 0, f.cols, Positions(Len(f.cols)))]

\* evaluate fitting the normalization of each feature it is given, as train does
evaluateRefitting(edict) ==
  LET m == evaluateMatrix(edict)
      refit == [k \in Names |->
                  IF edict.isDict /\ In(k, self.features.list) /\ In(k, names(edict))
                     /\ Get(edict, k).data # <<>>
                    THEN normalizationFactors(Get(edict, k)) ELSE muAndSigmaFeatures[k]]
  IN
  /\ Usable
  /\ hooks' = IF m.outcome.kind = "ok"
                THEN <<Call("__evaluateLocal__", m.featureValues, NoMatrix)>> ELSE <<>>
  /\ outcome' = m.outcome
  /\ lastOp' = "evaluate"
  /\ arg' = edict
  /\ heap' = [heap EXCEPT ![self.muAndSigmaFeatures] = refit]
  /\ UNCHANGED <<self, state, atSnapshot, checked, segment>>

evaluate(edict) ==
  LET m == evaluateMatrix(edict) IN
  /\ Usable
  /\ hooks' = IF m.outcome.kind = "ok"
                THEN <<Call("__evaluateLocal__", m.featureValues, NoMatrix)>> ELSE <<>>
  /\ outcome' = m.outcome
  /\ lastOp' = "evaluate"
  /\ arg' = edict
  /\ UNCHANGED <<self, heap, state, atSnapshot, checked, segment>>

confidence(edict) ==
  LET m == confidenceMatrix(edict) IN
  /\ Usable
  /\ hooks' = IF m.outcome.kind = "ok"
                THEN <<Call("__confidenceLocal__", m.featureValues, NoMatrix)>> ELSE <<>>
  /\ outcome' = m.outcome
  /\ lastOp' = "confidence"
  /\ arg' = edict
  /\ UNCHANGED <<self, heap, state, atSnapshot, checked, segment>>

\* ------------------------------------------------------- setAdditionalParams
\* a Python int
PyInt(i) == [type |-> "int", shape |-> <<>>, data |-> <<i>>, of |-> <<>>]

\* `if seed:` None and the int 0 are false
Truthy(v) == ~(v.type = "NoneType" \/ (v.type = "int" /\ v.data[1] = 0))

\* params.pop(key, None)
pop(params, key) == IF In(key, names(params)) THEN Get(params, key) ELSE NoneValue

\* the call of the hook reseed, which does nothing unless a subclass overrides it
reseed(seed) == Call("reseed", seed, NoMatrix)

setAdditionalParams(params) ==
  LET seed == pop(params, "seed") IN
  /\ Usable
  /\ hooks' = IF Truthy(seed) THEN <<reseed(seed)>> ELSE <<>>
  /\ outcome' = Ok
  /\ lastOp' = "setAdditionalParams"
  /\ arg' = params
  /\ UNCHANGED <<self, heap, state, atSnapshot, checked, segment>>

\* ------------------------------------------------------------------ inputs
\* the params a caller sets: none, or a seed of 0..MaxVal
ParamSets == {dict(<<>>)} \cup {dict(<<Item("seed", PyInt(i))>>) : i \in 0..MaxVal}

\* what a caller hands an instance as the value of a feature: a static one gets
\* arrays, None and a list; a dynamic one lists of histories, None and arrays
FeatureValues(dynamic) ==
  IF dynamic THEN Lists \cup {NoneValue} \cup {ndarray([i \in 1..n |-> i]) : n \in 1..MaxTime}
  ELSE Arrays \cup {NoneValue, listOfArrays(<<1>>)}

\* the value of a target: an array of MaxSamples outcomes
TargetValues == {ndarray([i \in 1..MaxSamples |-> 0])}

ValuesOf(k, dynamic) == IF k = "y" THEN TargetValues ELSE FeatureValues(dynamic)

\* the order in which a caller's dicts hold their keys
KeyOrder == <<"x", "z", "y">>

\* the item sequences that give some of the keys a value, in the order of keys
RECURSIVE ItemSeqs(_, _)
ItemSeqs(keys, dynamic) ==
  IF keys = <<>> THEN {<<>>}
  ELSE LET rest == ItemSeqs(Tail(keys), dynamic) IN
       rest \cup {<<Item(Head(keys), v)>> \o r : v \in ValuesOf(Head(keys), dynamic), r \in rest}

\* the dicts with keys among these
DictTable ==
  [keys \in SUBSET Names, dynamic \in BOOLEAN |->
     {dict(q) : q \in ItemSeqs(SelectSeq(KeyOrder, LAMBDA k : k \in keys), dynamic)}]

\* the names an instance is configured with
Declared == Elems(self.features.list) \cup Elems(self.target.list)

TrainingSets == DictTable[Declared, isDynamic] \cup {NotADict}

EvaluationSets == DictTable[Elems(self.features.list), isDynamic] \cup {NotADict}

KeepAll == [i \in 1..Len(self.features.list) |-> TRUE]

\* the masks RFE may return in this state, one mask when RFE is not called
CurrentSupports ==
  IF self.featureSelectionAlgo = "RFE" /\ self.nFeaturesToSelect # -1
    THEN Supports(Len(self.features.list), self.nFeaturesToSelect)
    ELSE {KeepAll}

\* the backend hook returns or raises; it is not reached when train fails first
Raises(tdict) == IF prepare(tdict, KeepAll).outcome.kind = "ok" THEN BOOLEAN ELSE {FALSE}

Configure ==
  \/ \E f \in FeatureLists, t \in TargetLists, a \in {"None", "RFE"} :
       \E n \in IF a = "RFE" THEN {0, 1} ELSE {0} : _handleInput(f, t, a, n)
  \/ \E f \in FeatureLists, t \in TargetLists, a \in {"None", "RFE", "UNKNOWN"} :
       initializeFromDict(f, t, a)

\* the call returns to the caller, which configures or uses the instance next;
\* a caller whose configuration raised drops the instance
Return ==
  /\ ~Idle
  /\ ~(lastOp = "_handleInput" /\ outcome.kind # "ok")
  /\ lastOp' = "idle"
  /\ arg' = NotADict
  /\ outcome' = Ok
  /\ hooks' = <<>>
  /\ UNCHANGED <<self, heap, state, atSnapshot, checked, segment>>

Next ==
  \/ Configure
  \/ Usable /\ \E tdict \in TrainingSets, support \in CurrentSupports :
       \E backendRaises \in Raises(tdict) : train(tdict, support, backendRaises)
  \/ Usable /\ \E edict \in EvaluationSets : evaluate(edict)
  \/ Usable /\ \E edict \in EvaluationSets : confidence(edict)
  \/ reset
  \/ \E params \in ParamSets : setAdditionalParams(params)
  \/ Return

Spec == Init /\ [][Next]_vars

\* ------------------------------------------------- snapshots of one instance
\* an instance of two features, called with dicts that hold every name, and
\* snapshot and restored between the calls
NextSnapshot ==
  \/ _handleInput(<<"x", "z">>, <<"y">>, "None", 0)
  \/ initializeFromDict(<<"x", "z">>, <<"y">>, "None")
  \/ Usable /\ \E tdict \in {d \in TrainingSets : Len(d.items) = Cardinality(Declared)},
                    support \in CurrentSupports :
       \E backendRaises \in Raises(tdict) : train(tdict, support, backendRaises)
  \/ Usable /\ \E edict \in {d \in EvaluationSets : Len(d.items) = Len(self.features.list)} :
       evaluate(edict)
  \/ reset
  \/ __getstate__
  \/ __setstate__
  \/ Return

SpecSnapshot == Init /\ [][NextSnapshot]_vars

\* ------------------------------------------------------------------ claims
\* the declared names that are no key of d
Missing(d) == {k \in Declared : ~In(k, names(d))}

\* the declared features whose value in d the array validator rejects
Rejected(d) ==
  {k \in Elems(self.features.list) :
     In(k, names(d)) /\ ~checkArrayConsistency(Get(d, k), isDynamic)[1]}

\* the declared features whose value in d has another number of rows than the
\* first target's
Mismatched(d) ==
  {k \in Elems(self.features.list) :
     /\ In(k, names(d))
     /\ Missing(d) = {}
     /\ self.target.list # <<>>
     /\ PyLen(Get(d, k)) # PyLen(Get(d, self.target.list[1]))}

\* d is a training set train must refuse
InputFault(d) == ~d.isDict \/ Missing(d) # {} \/ Rejected(d) # {} \/ Mismatched(d) # {}

\* C1: on an instance that is not trained, evaluate and confidence end in an
\* error and invoke no backend hook, whatever the evaluation set.
C1_UntrainedCallsFail ==
  (lastOp \in {"evaluate", "confidence"} /\ ~self.amITrained)
    => (outcome.kind # "ok" /\ hooks = <<>>)

\* C2: a train call given a non-mapping, or a training set with a declared name
\* missing, a feature array the validator rejects or a feature whose row count
\* differs from the target's, fails without invoking _train and leaves the
\* trained flag as it was.
C2_NoPartialSuccess ==
  [][(lastOp' = "train" /\ InputFault(arg'))
       => (outcome'.kind # "ok" /\ hooks' = <<>> /\ self'.amITrained = self.amITrained
           /\ self'.backend = self.backend)]_vars

\* a train call on a trained instance failed on the row count of feature z,
\* and the instance is still trained
C2_Witness ==
  /\ lastOp = "train" /\ self.amITrained
  /\ Missing(arg) = {} /\ Rejected(arg) = {} /\ "z" \in Mismatched(arg)
  /\ outcome = raiseAnError("IOError", "z")

\* C3: reset on a trained instance clears the trained flag, invokes
\* __resetLocal__ exactly once and leaves muAndSigmaFeatures empty.
C3_ResetDiscardsParams ==
  [][(lastOp' = "reset" /\ self.amITrained)
       => (/\ ~self'.amITrained
           /\ hooks' = <<Call("__resetLocal__", NoMatrix, NoMatrix)>>
           /\ heap'[self'.muAndSigmaFeatures] = EmptyDict)]_vars

\* C4: a training set that lacks a declared feature or target name, and is
\* otherwise sound, makes train fail through raiseAnError with IOError and a
\* message that names a missing name, in static and in dynamic mode.
C4_MissingNameIsNamed ==
  (lastOp = "train" /\ arg.isDict /\ Missing(arg) # {} /\ Rejected(arg) = {})
    => (outcome.kind = "raiseAnError" /\ outcome.exc = "IOError"
        /\ outcome.about \in Missing(arg))

\* C5: no initialization path leaves an instance whose features and target
\* share a name, unless it raised; train never runs on such an instance.
C5_NoSharedNames ==
  (Configured /\ Elems(self.features.list) \cap Elems(self.target.list) # {})
    => (lastOp = "_handleInput" /\ outcome.kind = "raiseAnError")

\* C6: the dict __getstate__ returned keeps, whatever the instance is called
\* with afterwards, the values its fields had when it was taken, and
\* __setstate__ gives an instance exactly those values.
C6_SnapshotIsolated ==
  /\ state.taken => Deref(state.d, heap) = atSnapshot
  /\ (state.taken /\ lastOp = "__setstate__") => Deref(self, heap) = atSnapshot

\* two static matrices are the same matrix of real numbers
SameMatrix(a, b) ==
  /\ a.rows = b.rows
  /\ Len(a.cols) = Len(b.cols)
  /\ \A c \in 1..Len(a.cols) : \A r \in 1..a.rows : RealEq(a.cols[c][r], b.cols[c][r])

\* C7: on a trained instance, for an evaluation set evaluate accepts,
\* confidence hands __confidenceLocal__ the matrix evaluate hands
\* __evaluateLocal__, each column normalized with the stored (mu, sigma).
C7_ConfidenceNormalizes ==
  (/\ lastOp = "confidence" /\ self.amITrained /\ ~self.dynamicFeatures
   /\ outcome.kind = "ok" /\ evaluateMatrix(arg).outcome.kind = "ok")
    => SameMatrix(hooks[1].featureVals, evaluateMatrix(arg).featureValues)

\* C8: with RFE configured, evaluate hands __evaluateLocal__ the columns that
\* train handed _train: as many, of the same declared positions.
C8_SameColumns ==
  (/\ lastOp = "evaluate" /\ outcome.kind = "ok" /\ self.amITrained
   /\ self.featureSelectionAlgo = "RFE")
    => hooks[1].featureVals.positions = self.backend.positions

\* C9: evaluate and confidence, failing or not, leave the normalization
\* parameters, the trained flag and the feature and target lists as they were.
C9_EvaluateChangesNothing ==
  [][lastOp' \in {"evaluate", "confidence"}
       => (/\ heap'[self'.muAndSigmaFeatures] = heap[self.muAndSigmaFeatures]
           /\ self'.amITrained = self.amITrained
           /\ self'.features = self.features
           /\ self'.target = self.target)]_vars

\* evaluate handed the backend a matrix of a trained instance whose feature x
\* has fitted parameters
C9_Witness ==
  /\ lastOp = "evaluate" /\ outcome.kind = "ok" /\ self.amITrained
  /\ hooks # <<>> /\ muAndSigmaFeatures["x"].has
  /\ muAndSigmaFeatures["x"] # normalizationFactors(Get(arg, "x"))

\* the lengths of the realizations of the declared features in d
Lengths(d) ==
  UNION {Elems(Get(d, k).shape) : k \in Elems(self.features.list)}

MaxOf(S) == CHOOSE m \in S : \A k \in S : k <= m

\* C10: in dynamic mode a sound training set whose realizations differ in
\* length is trained on: _train gets a matrix whose time axis is the greatest
\* length of any realization of any feature, the shorter ones padded with zero.
C10_DynamicPadsToMax ==
  (/\ lastOp = "train" /\ self.dynamicFeatures /\ ~InputFault(arg)
   /\ self.features.list # <<>>
   /\ \A k \in Elems(self.features.list) : Get(arg, k).type = "list"
   /\ Cardinality(Lengths(arg)) > 1
   /\ ~(self.featureSelectionAlgo = "RFE" /\ self.nFeaturesToSelect = -1))
    => (/\ hooks # <<>>
        /\ hooks[1].featureVals.time = MaxOf(Lengths(arg))
        /\ \A c \in 1..Len(hooks[1].featureVals.cols) :
             \A r \in 1..hooks[1].featureVals.rows :
               \A k \in 1..hooks[1].featureVals.time :
                 k > Get(arg, self.features.list[hooks[1].featureVals.positions[c]]).shape[r]
                   => RealEq(hooks[1].featureVals.cols[c][r][k], Raw(0)))

\* ------------------------------------------- the array validator on its own
\* what a list may hold: arrays of one and of two dimensions, None, lists, floats
ElementTypes == {"ndarray", "ndarray2d", "NoneType", "list", "float"}

\* the values the validator is called with: nothing, a float, arrays of one and
\* of two dimensions, and the lists of up to MaxSamples elements
CheckInputs ==
  {NoneValue, PyFloat, ndarray2d(1, 1, <<1>>)} \cup Arrays
    \cup {listOf(t) : t \in UNION {[1..n -> ElementTypes] : n \in 0..MaxSamples}}

\* a caller calls the static method
CallCheckArrayConsistency ==
  \E arrayIn \in CheckInputs, dynamic \in BOOLEAN :
    /\ checked' = [arrayIn |-> arrayIn, isDynamic |-> dynamic, called |-> TRUE,
                   resp |-> checkArrayConsistency(arrayIn, dynamic)]
    /\ UNCHANGED <<self, heap, state, atSnapshot, lastOp, arg, outcome, hooks, segment>>

NextCheck == CallCheckArrayConsistency

SpecCheck == Init /\ [][NextCheck]_vars

\* the indices, from 1, of the elements of a list that are no 1-d array
Invalid(v) == {i \in 1..Len(v.of) : v.of[i] # "ndarray"}

MinOf(S) == CHOOSE m \in S : \A k \in S : m <= k

\* C11: checkArrayConsistency returns ok exactly for a single 1-d array when
\* it is not dynamic and for a list of 1-d arrays when it is; a 1-d array that
\* is no list is refused in dynamic mode; for a list with an invalid element the
\* message names the lowest index of one.
C11_ExactValidator ==
  checked.called =>
    LET v == checked.arrayIn IN
    /\ checked.resp[1] <=>
         (IF checked.isDynamic THEN v.type = "list" /\ Invalid(v) = {}
          ELSE v.type = "ndarray" /\ Len(v.shape) = 1)
    /\ (checked.isDynamic /\ v.type = "list" /\ Invalid(v) # {}) =>
         checked.resp[2] =
           " The element number " \o ToString(MinOf(Invalid(v)) - 1)
             \o " is not a consistent array. Error: "
             \o checkArrayConsistency(elementArray(v, MinOf(Invalid(v))), FALSE)[2]

\* --------------------------------------------------- the segment protocol
\* the hooks of ROM clustering, called by a collection of ROMs on its global
\* template ROM and on its local ROMs; each does nothing and returns
getGlobalRomSegmentSettings ==
  /\ Idle
  /\ segment' = [segment EXCEPT !.settings = TRUE]
  /\ lastOp' = "getGlobalRomSegmentSettings"
  /\ arg' = NotADict
  /\ outcome' = Ok
  /\ hooks' = <<>>
  /\ UNCHANGED <<self, heap, state, atSnapshot, checked>>

adjustLocalRomSegment(rom) ==
  /\ Idle
  /\ segment' = [segment EXCEPT !.adjusted = @ \cup {rom}]
  /\ lastOp' = "adjustLocalRomSegment"
  /\ arg' = NotADict
  /\ outcome' = Ok
  /\ hooks' = <<>>
  /\ UNCHANGED <<self, heap, state, atSnapshot, checked>>

finalizeLocalRomSegmentEvaluation(rom) ==
  /\ Idle
  /\ segment' = [segment EXCEPT !.finalized = @ \cup {rom}]
  /\ lastOp' = "finalizeLocalRomSegmentEvaluation"
  /\ arg' = NotADict
  /\ outcome' = Ok
  /\ hooks' = <<>>
  /\ UNCHANGED <<self, heap, state, atSnapshot, checked>>

finalizeGlobalRomSegmentEvaluation ==
  /\ Idle
  /\ segment' = [segment EXCEPT !.global = TRUE]
  /\ lastOp' = "finalizeGlobalRomSegmentEvaluation"
  /\ arg' = NotADict
  /\ outcome' = Ok
  /\ hooks' = <<>>
  /\ UNCHANGED <<self, heap, state, atSnapshot, checked>>

NextSegment ==
  \/ getGlobalRomSegmentSettings
  \/ \E rom \in Locals : adjustLocalRomSegment(rom)
  \/ \E rom \in Locals : finalizeLocalRomSegmentEvaluation(rom)
  \/ finalizeGlobalRomSegmentEvaluation
  \/ Return

SpecSegment == Init /\ [][NextSegment]_vars

\* C12: adjustLocalRomSegment called before getGlobalRomSegmentSettings has
\* run, and finalizeGlobalRomSegmentEvaluation called before every local ROM's
\* finalizeLocalRomSegmentEvaluation has run, end in an error.
C12_SegmentOrder ==
  [][/\ (lastOp' = "adjustLocalRomSegment" /\ ~segment.settings) => outcome'.kind # "ok"
     /\ (lastOp' = "finalizeGlobalRomSegmentEvaluation" /\ segment.finalized # Locals)
          => outcome'.kind # "ok"]_vars

\* C13: setAdditionalParams invokes reseed exactly once, with the seed, when
\* params holds a seed (0 too), and does not invoke it when params holds none.
C13_SeedForwarded ==
  lastOp = "setAdditionalParams" =>
    hooks = (IF In("seed", names(arg)) THEN <<reseed(Get(arg, "seed"))>> ELSE <<>>)

\* the names of feature-selection algorithms the input specification knows,
\* and "None" for none
Recognized == {"None", "RFE"}

\* C14: setup given a feature-selection algorithm that is not recognized
\* fails, on every initialization path, and train never hands the backend a
\* matrix on an instance that holds such a name.
C14_UnknownAlgoRejected ==
  (Configured /\ self.featureSelectionAlgo \notin Recognized) =>
    /\ lastOp \in {"_handleInput", "initializeFromDict"}
    /\ outcome.kind # "ok"

\* the dicts that hold the items of d, in every order of the keys
Permuted(d) ==
  LET n == Len(d.items) IN
  {dict([i \in 1..n |-> d.items[f[i]]]) :
     f \in {g \in [1..n -> 1..n] : \A i, j \in 1..n : g[i] = g[j] => i = j}}

\* the keep-mask of the columns a matrix holds
SupportOf(featureVals) ==
  [i \in 1..Len(self.features.list) |-> In(i, featureVals.positions)]

\* C15: for a training set train hands to the backend, and every order of its
\* keys, train hands the backend the same feature matrix and the same target
\* matrix, and stores the same normalization parameters.
C15_KeyOrderInvariant ==
  [][(lastOp' = "train" /\ hooks' # <<>>) =>
       \A q \in Permuted(arg') :
         LET p == prepare(q, SupportOf(hooks'[1].featureVals)) IN
         /\ p.outcome = Ok
         /\ p.featureValues = hooks'[1].featureVals
         /\ p.targetValues = hooks'[1].targetVals
         /\ p.mu = heap'[self'.muAndSigmaFeatures]]_vars

\* train handed the backend the matrix of a training set of three keys whose
\* two features have different values, so that the order of the keys matters
C15_Witness ==
  /\ lastOp = "train" /\ hooks # <<>>
  /\ Len(arg.items) = 3
  /\ self.features.list = <<"x", "z">>
  /\ Get(arg, "x") # Get(arg, "z")
  /\ Cardinality(Permuted(arg)) = 6

\* C16: whatever train, evaluate, confidence and reset calls were made, failed
\* ones and ones whose backend raised included, amITrained is true exactly when
\* a _train call has returned since construction or the last reset; evaluate
\* and confidence never change it and a failing train never sets it.
C16_TrainedIffCompleted ==
  /\ [](self.amITrained <=> self.backend.fitted)
  /\ [][/\ lastOp' \in {"evaluate", "confidence"} => self'.amITrained = self.amITrained
        /\ (lastOp' = "train" /\ outcome'.kind # "ok") => self'.amITrained = self.amITrained
        /\ (lastOp' = "train" /\ outcome'.kind = "ok") => self'.amITrained
        /\ lastOp' = "reset" => ~self'.amITrained]_vars

\* the backend raised in a train call on an instance that was not trained, and
\* the instance is not trained
C16_Witness ==
  /\ lastOp = "train" /\ outcome = BackendError /\ hooks # <<>>
  /\ ~self.amITrained

\* C17: a train call on a trained instance that fails at a declared feature
\* (missing, refused by the validator, or of another row count) leaves
\* muAndSigmaFeatures as it was before the call, for every feature.
C17_FailedTrainKeepsParams ==
  [][(/\ lastOp' = "train" /\ self.amITrained
      /\ outcome'.kind = "raiseAnError" /\ outcome'.exc = "IOError"
      /\ outcome'.about \in Elems(self.features.list))
       => heap'[self'.muAndSigmaFeatures] = heap[self.muAndSigmaFeatures]]_vars

====
